---- MODULE Spec2Model ----
\* PC audio client (script.py): GUI thread, background thread with its asyncio
\* loop (connection manager, sender pipeline, receiver pipeline), the PortAudio
\* capture callback and the network peer.
EXTENDS Integers, Sequences, FiniteSets, TLC

\* ---------------------------------------------------------------- bounds
\* connections the peer accepts in one model run
MaxConns == 2
\* frames the capture hardware delivers while streaming is on
MaxFrames == 2
\* the count of consecutive failures saturates here (the delay is 30 from the 6th on)
MaxFails == 7
\* consecutive connection attempts the peer lets fail, where that is limited
MaxRefusals == 2
\* frames the hardware delivers to a callback that hands none of them on
MaxLost == 1
\* Start requests that begin a run
MaxRuns == 1
\* --save-duration, in seconds
SaveDuration == 1

\* connections the server accepts
MaxSessions == 2
\* messages a client sends on one connection
MaxMsgs == 2

\* ------------------------------------------------------ program constants
RATE == 44100
CHANNELS == 1
SAMPLE_WIDTH == 2
INITIAL_RETRY_DELAY == 1
MAX_RETRY_DELAY == 30
\* android_server.py: RATE, SINE_DURATION (0.5 s) in tenths of a second, and the
\* bytes of one np.int16 sample
SERVER_RATE == 44100
SINE_DURATION_TENTHS == 5
INT16_BYTES == 2
\* time is counted in ticks of the pipelines' poll interval, the 0.1 s of
\* wait_for(..., timeout=0.1): ticks in a second, ticks in a poll interval,
\* and the ticks of wait_for(ws_connect_coro, timeout=6.0)
TicksPerSecond == 10
PollTicks == 1
ConnectTimeoutTicks == 60

\* byte lengths of the messages the peer may send: an empty message, and an odd
\* length, whose count of whole frames (22050) is not half its byte count
ChunkLens == {0, 44101}
\* the lengths used where the captured bytes are examined: a third length tells
\* the chunks of one capture apart, and a long message reaches the target alone
CaptureLens == ChunkLens \cup {44100, 88200}

Threads == {"main", "background", "portaudio"}
\* the thread PortAudio runs the stream callback on
HardwareThread == "portaudio"
\* the thread of run_audio_and_websocket_loop, which carries the websocket_loop attribute
LoopThread == "background"

ConnectFailKinds == {"timeout", "refused", "oserror", "other"}
PingFailKinds == {"timeout", "closed", "other"}
MicFailKinds == {"nodevice", "busy", "generic", "unexpected"}
SpeakerFailKinds == {"nodevice", "busy", "generic", "unexpected"}

Gens == 1..MaxConns
Sessions == 1..MaxSessions
\* byte lengths of the messages a client may send to the server
InboundLens == {0, 2048}

VARIABLES
    recording, app_running,         \* global flags
    status, start_button, stop_button, gui_pc, runs,
    bg_pc, audio_stream, websocket_loop, loop_running,
    captured, put_pending, audio_buffer_queue, sent,
    websocket_connection, conns, n_conns,
    mgr, sender, receiver,
    args_save, wav_writes,
    server_pc, sessions,            \* the server process (android_server.py)
    slept, since_stop               \* ticks spent in the manager's current wait,
                                    \* and ticks since app_running was cleared

vars == <<recording, app_running, status, start_button, stop_button, gui_pc, runs,
          bg_pc, audio_stream, websocket_loop, loop_running,
          captured, put_pending, audio_buffer_queue, sent,
          websocket_connection, conns, n_conns,
          mgr, sender, receiver, args_save, wav_writes, server_pc, sessions,
          slept, since_stop>>

guiVars == <<start_button, stop_button, gui_pc, runs>>
bgVars == <<bg_pc, audio_stream, websocket_loop, loop_running>>
frameVars == <<captured, put_pending, audio_buffer_queue, sent>>
netVars == <<conns, n_conns>>
taskVars == <<mgr, sender, receiver>>
timeVars == <<slept, since_stop>>
\* what no untimed step of the client changes: its command line, the server
\* process and the count of time
fixedVars == <<args_save, server_pc, sessions, timeVars>>
fileVars == <<fixedVars, wav_writes>>
\* what no step of the server changes
clientVars == <<recording, app_running, status, guiVars, bgVars, frameVars,
                websocket_connection, netVars, taskVars, args_save, wav_writes,
                timeVars>>

\* ---------------------------------------------------------------- helpers
\* a connection slot of the server before a client connects: no handler, no
\* PyAudio instance, no playback stream; recv, played and replies count the
\* messages read, written to playback and answered; msg_len is the byte length
\* of the message being answered, answered the lengths of those answered, and
\* reply_lens the byte lengths of the replies sent
NoSession == [pc |-> "free", pa |-> "none", stream |-> "none", recv |-> 0,
              played |-> 0, replies |-> 0, msg_len |-> 0, answered |-> {},
              reply_lens |-> {}]
Min(a, b) == IF a < b THEN a ELSE b

\* a status report: the text handed to schedule_gui_update, and the N of "Retrying in Ns"
St(t) == [text |-> t, n |-> 0]
StN(t, k) == [text |-> t, n |-> k]

NoSender == [pc |-> "none", cancel |-> FALSE, data |-> 0, conn |-> 0]
NoReceiver == [pc |-> "none", cancel |-> FALSE, conn |-> 0, out |-> FALSE,
               saving |-> FALSE, saved |-> 0, buf |-> <<>>]
NoManager == [pc |-> "none", delay |-> INITIAL_RETRY_DELAY, fails |-> 0,
              send_task |-> 0, receive_task |-> 0, ping_conn |-> 0, gen |-> 0]

\* task.done()
Done(t) == t.pc \in {"none", "done"}
Live(t) == ~Done(t)
\* task.cancel(): the CancelledError is raised in the task at its next step
Cancel(t) == IF Live(t) THEN [t EXCEPT !.cancel = TRUE] ELSE t

OpenConns == {c \in Gens : conns[c] = "open"}

\* ------------------------------------------------------------------- Init
Init ==
    /\ recording = FALSE
    /\ app_running = TRUE
    /\ status = St("Status: Ready")
    /\ start_button = "normal"
    /\ stop_button = "disabled"
    /\ gui_pc = "idle"
    /\ runs = 0
    /\ bg_pc = "none"
    /\ audio_stream = "none"
    /\ websocket_loop = [t \in Threads |-> FALSE]
    /\ loop_running = FALSE
    /\ captured = 0
    /\ put_pending = <<>>
    /\ audio_buffer_queue = <<>>
    /\ sent = <<>>
    /\ websocket_connection = 0
    /\ conns = [c \in Gens |-> "unused"]
    /\ n_conns = 0
    /\ mgr = NoManager
    /\ sender = [g \in Gens |-> NoSender]
    /\ receiver = [g \in Gens |-> NoReceiver]
    /\ args_save \in BOOLEAN
    /\ server_pc = "starting"
    /\ sessions = [s \in Sessions |-> NoSession]
    /\ wav_writes = <<>>
    /\ slept = 0
    /\ since_stop = 0

\* ------------------------------------------------------------- GUI thread
\* (variant of AlreadyRecording: the check is missing)
NeverRecording(rec) == FALSE
\* start_recording_wrapper: "if recording: return"
AlreadyRecording(rec) == rec

\* Start button: start_recording_wrapper, in a session of at most cap runs. The
\* button is disabled by an update scheduled with root.after, so a second
\* request can arrive while the button still accepts it. A request that starts
\* a thread comes when the thread of the previous run has returned (the model
\* holds one background thread).
StartRecording(cap) ==
    /\ gui_pc = "idle"
    /\ start_button = "normal" \/ recording
    /\ IF AlreadyRecording(recording)
       THEN UNCHANGED <<recording, app_running, status, start_button, stop_button,
                        runs, bg_pc, wav_writes>>
       ELSE /\ runs < cap
            /\ bg_pc \in {"none", "finished"}
            /\ recording' = TRUE
            /\ app_running' = TRUE
            /\ status' = St("Status: Initializing...")
            /\ start_button' = "disabled"
            /\ stop_button' = "normal"
            /\ runs' = runs + 1
            /\ bg_pc' = "start"
            /\ wav_writes' = <<>>
    /\ UNCHANGED <<gui_pc, audio_stream, websocket_loop, loop_running, frameVars,
                   websocket_connection, netVars, taskVars, fixedVars>>

start_recording_wrapper == StartRecording(MaxRuns)

\* (variant of StopIgnored: a Stop request is never ignored)
StopNeverIgnored(run, rec) == FALSE
\* stop_recording_wrapper: "if not app_running and not recording: return"
StopIgnored(run, rec) == ~run /\ ~rec

\* Stop button: stop_recording_wrapper up to "recording = False". The button is
\* disabled by an update scheduled with root.after, so a second request can
\* arrive when nothing runs any more.
stop_recording_wrapper ==
    /\ gui_pc = "idle"
    /\ stop_button = "normal" \/ (~app_running /\ ~recording)
    /\ IF StopIgnored(app_running, recording)
       THEN UNCHANGED <<recording, status, stop_button, gui_pc>>
       ELSE /\ status' = St("Status: Stopping...")
            /\ stop_button' = "disabled"
            /\ recording' = FALSE
            /\ gui_pc' = "stop_flag"
    /\ UNCHANGED <<app_running, start_button, runs, bgVars, frameVars,
                   websocket_connection, netVars, taskVars, fileVars>>

\* stop_recording_wrapper: "app_running = False"
stop_clear_app_running ==
    /\ gui_pc = "stop_flag"
    /\ app_running' = FALSE
    /\ gui_pc' = "idle"
    /\ UNCHANGED <<recording, status, start_button, stop_button, runs, bgVars,
                   frameVars, websocket_connection, netVars, taskVars, fileVars>>

\* ------------------------------------------------------ background thread
\* run_audio_and_websocket_loop: new queue, new loop, microphone opened
BgOpenMic ==
    /\ bg_pc = "start"
    /\ audio_buffer_queue' = <<>>
    /\ put_pending' = <<>>
    /\ websocket_loop' = [websocket_loop EXCEPT !["background"] = TRUE]
    /\ audio_stream' = "active"
    /\ bg_pc' = "mic_open"
    /\ UNCHANGED <<recording, app_running, status, guiVars, loop_running, captured,
                   sent, websocket_connection, netVars, taskVars, fileVars>>

\* (variant of MicFailStatus: one text for every failure)
MicFailStatusGeneric(kind) == St("Error: Could not open microphone. Check audio settings.")
\* the status reported for a failure to open the microphone
MicFailStatus(kind) ==
    CASE kind = "nodevice" -> St("Error: No microphone found or invalid input device.")
      [] kind = "busy" -> St("Error: Microphone is busy or unavailable.")
      [] kind = "generic" -> St("Error: Could not open microphone. Check audio settings.")
      [] OTHER -> St("Status: Mic Error (unexpected)")

\* run_audio_and_websocket_loop: p.open raises
BgMicFail(kind) ==
    /\ bg_pc = "start"
    /\ audio_buffer_queue' = <<>>
    /\ put_pending' = <<>>
    /\ websocket_loop' = [websocket_loop EXCEPT !["background"] = TRUE]
    /\ status' = MicFailStatus(kind)
    /\ start_button' = "normal"
    /\ stop_button' = "disabled"
    /\ app_running' = FALSE
    /\ bg_pc' = "finally"
    /\ UNCHANGED <<recording, gui_pc, runs, audio_stream, loop_running, captured,
                   sent, websocket_connection, netVars, taskVars, fileVars>>

\* run_audio_and_websocket_loop: manager task created, loop.run_until_complete entered
BgRunLoop ==
    /\ bg_pc = "mic_open"
    /\ status' = St("Status: Mic open, connecting...")
    /\ mgr' = [NoManager EXCEPT !.pc = "new"]
    /\ loop_running' = TRUE
    /\ bg_pc' = "running"
    /\ UNCHANGED <<recording, app_running, guiVars, audio_stream, websocket_loop,
                   frameVars, websocket_connection, netVars, sender, receiver, fileVars>>

\* loop.run_until_complete(manager_task) returns
BgLoopReturn ==
    /\ bg_pc = "running"
    /\ mgr.pc = "done"
    /\ loop_running' = FALSE
    /\ bg_pc' = "finally"
    /\ UNCHANGED <<recording, app_running, status, guiVars, audio_stream, websocket_loop,
                   frameVars, websocket_connection, netVars, taskVars, fileVars>>

\* the condition under which the finally block reports 'Stopped.'
ReportsStopped == ~app_running \/ mgr.pc = "done"

\* run_audio_and_websocket_loop: the finally block
BgFinally ==
    /\ bg_pc = "finally"
    /\ audio_stream' = "none"
    /\ IF ReportsStopped
       THEN /\ status' = St("Status: Stopped.")
            /\ start_button' = "normal"
            /\ stop_button' = "disabled"
       ELSE UNCHANGED <<status, start_button, stop_button>>
    /\ bg_pc' = "finished"
    /\ UNCHANGED <<recording, app_running, gui_pc, runs, websocket_loop, loop_running,
                   frameVars, websocket_connection, netVars, taskVars, fileVars>>

\* --------------------------------------------------------- capture callback
\* getattr(threading.current_thread(), 'websocket_loop', None) and loop.is_running()
LoopSeenBy(th) == websocket_loop[th] /\ loop_running

\* audio_callback, invoked on thread th with the next captured frame; the hardware
\* delivers at most cap frames
audio_callback(th, cap) ==
    /\ audio_stream = "active"
    /\ IF recording /\ app_running
       THEN /\ captured < cap
            /\ captured' = captured + 1
            /\ put_pending' = IF LoopSeenBy(th)
                              THEN Append(put_pending, captured + 1)
                              ELSE put_pending
            /\ UNCHANGED audio_stream
       ELSE /\ audio_stream' = "complete"
            /\ UNCHANGED <<captured, put_pending>>
    /\ UNCHANGED <<recording, app_running, status, guiVars, bg_pc, websocket_loop,
                   loop_running, audio_buffer_queue, sent, websocket_connection,
                   netVars, taskVars, fileVars>>

\* audio_buffer_queue.put(in_data)
QueuePut(q, frame) == Append(q, frame)
\* (variant of QueueFront: the newest frame is taken)
QueueBack(q) == q[Len(q)]
\* audio_buffer_queue.get()
QueueFront(q) == Head(q)
QueueRest(q) == Tail(q)

\* the loop runs the put coroutine handed over by run_coroutine_threadsafe
LoopRunPut ==
    /\ loop_running
    /\ put_pending # <<>>
    /\ audio_buffer_queue' = QueuePut(audio_buffer_queue, Head(put_pending))
    /\ put_pending' = Tail(put_pending)
    /\ UNCHANGED <<recording, app_running, status, guiVars, bgVars, captured, sent,
                   websocket_connection, netVars, taskVars, fileVars>>

\* ------------------------------------------------------------------- peer
\* the peer (or the network) closes an established connection
PeerClose(c) ==
    /\ conns[c] = "open"
    /\ conns' = [conns EXCEPT ![c] = "closed_peer"]
    /\ UNCHANGED <<recording, app_running, status, guiVars, bgVars, frameVars,
                   websocket_connection, n_conns, taskVars, fileVars>>

\* ---------------------------------------------------------- sender pipeline
\* send_audio_to_websocket: "while app_running" and the branch taken, up to the next await
SenderHeadPc(h) ==
    IF ~app_running THEN "done"
    ELSE IF h # 0 /\ recording THEN "get"
    ELSE "idle_sleep"

SenderSet(g, rec) == sender' = [sender EXCEPT ![g] = rec]

\* first step of the task
SenderStart(g) ==
    /\ loop_running /\ sender[g].pc = "new" /\ ~sender[g].cancel
    /\ SenderSet(g, [sender[g] EXCEPT !.pc = SenderHeadPc(websocket_connection)])
    /\ UNCHANGED <<recording, app_running, status, guiVars, bgVars, frameVars,
                   websocket_connection, netVars, mgr, receiver, fileVars>>

\* wait_for(audio_buffer_queue.get()) returns a frame to the task, whose record
\* is rec; websocket_connection.send(data) is called
SenderTake(g, rec) ==
    /\ loop_running /\ sender[g].pc = "get"
    /\ audio_buffer_queue # <<>>
    /\ audio_buffer_queue' = QueueRest(audio_buffer_queue)
    /\ IF websocket_connection = 0
       THEN \* None has no send: caught by "except Exception"
            /\ SenderSet(g, [rec EXCEPT !.pc = "err_sleep"])
            /\ status' = St("Status: Error sending audio.")
       ELSE /\ SenderSet(g, [rec EXCEPT !.pc = "send",
                                        !.data = QueueFront(audio_buffer_queue),
                                        !.conn = websocket_connection])
            /\ UNCHANGED status
    /\ UNCHANGED <<recording, app_running, guiVars, bgVars, captured, put_pending, sent,
                   websocket_connection, netVars, mgr, receiver, fileVars>>

SenderGet(g) == ~sender[g].cancel /\ SenderTake(g, sender[g])

\* the task was cancelled while the frame was already there: wait_for (asyncio of
\* Python 3.8 to 3.11) returns the frame and the cancellation is lost; a later
\* asyncio raises CancelledError instead (SenderCancelled)
SenderGetUncancelled(g) ==
    sender[g].cancel /\ SenderTake(g, [sender[g] EXCEPT !.cancel = FALSE])

\* wait_for(audio_buffer_queue.get()) times out on an empty queue
SenderGetTimeout(g) ==
    /\ loop_running /\ sender[g].pc = "get" /\ ~sender[g].cancel
    /\ audio_buffer_queue = <<>>
    /\ SenderSet(g, [sender[g] EXCEPT !.pc = SenderHeadPc(websocket_connection)])
    /\ UNCHANGED <<recording, app_running, status, guiVars, bgVars, frameVars,
                   websocket_connection, netVars, mgr, receiver, fileVars>>

\* websocket_connection.send(data) returns
SenderSendOk(g) ==
    /\ loop_running /\ sender[g].pc = "send" /\ ~sender[g].cancel
    /\ conns[sender[g].conn] = "open"
    /\ sent' = Append(sent, [frame |-> sender[g].data, conn |-> sender[g].conn])
    /\ SenderSet(g, [sender[g] EXCEPT !.pc = SenderHeadPc(websocket_connection),
                                      !.data = 0, !.conn = 0])
    /\ UNCHANGED <<recording, app_running, status, guiVars, bgVars, captured, put_pending,
                   audio_buffer_queue, websocket_connection, netVars, mgr, receiver, fileVars>>

\* websocket_connection.send(data) raises ConnectionClosed
SenderSendClosed(g) ==
    /\ loop_running /\ sender[g].pc = "send" /\ ~sender[g].cancel
    /\ conns[sender[g].conn] # "open"
    /\ status' = St("Status: Connection lost (send).")
    /\ websocket_connection' = 0
    /\ SenderSet(g, [sender[g] EXCEPT !.pc = "done", !.data = 0, !.conn = 0])
    /\ UNCHANGED <<recording, app_running, guiVars, bgVars, frameVars, netVars, mgr,
                   receiver, fileVars>>

\* (variant of SenderSendError: the error ends the sender)
SenderSendErrorEnds(g) ==
    /\ loop_running /\ sender[g].pc = "send" /\ ~sender[g].cancel
    /\ status' = St("Status: Error sending audio.")
    /\ SenderSet(g, [NoSender EXCEPT !.pc = "done"])
    /\ UNCHANGED <<recording, app_running, guiVars, bgVars, frameVars,
                   websocket_connection, netVars, mgr, receiver, fileVars>>

\* (variant of SenderSendError: the frame goes back to the head of the queue)
SenderSendErrorRequeues(g) ==
    /\ loop_running /\ sender[g].pc = "send" /\ ~sender[g].cancel
    /\ status' = St("Status: Error sending audio.")
    /\ audio_buffer_queue' = <<sender[g].data>> \o audio_buffer_queue
    /\ SenderSet(g, [sender[g] EXCEPT !.pc = "err_sleep", !.data = 0, !.conn = 0])
    /\ UNCHANGED <<recording, app_running, guiVars, bgVars, captured, put_pending, sent,
                   websocket_connection, netVars, mgr, receiver, fileVars>>

\* websocket_connection.send(data) raises another exception
SenderSendError(g) ==
    /\ loop_running /\ sender[g].pc = "send" /\ ~sender[g].cancel
    /\ status' = St("Status: Error sending audio.")
    /\ SenderSet(g, [sender[g] EXCEPT !.pc = "err_sleep", !.data = 0, !.conn = 0])
    /\ UNCHANGED <<recording, app_running, guiVars, bgVars, frameVars,
                   websocket_connection, netVars, mgr, receiver, fileVars>>

\* asyncio.sleep(0.1) or asyncio.sleep(0.01) returns
SenderWake(g) ==
    /\ loop_running /\ sender[g].pc \in {"err_sleep", "idle_sleep"} /\ ~sender[g].cancel
    /\ SenderSet(g, [sender[g] EXCEPT !.pc = SenderHeadPc(websocket_connection)])
    /\ UNCHANGED <<recording, app_running, status, guiVars, bgVars, frameVars,
                   websocket_connection, netVars, mgr, receiver, fileVars>>

\* CancelledError raised at the await the task is suspended in
SenderCancelled(g) ==
    /\ loop_running /\ Live(sender[g]) /\ sender[g].cancel
    /\ SenderSet(g, [NoSender EXCEPT !.pc = "done"])
    /\ UNCHANGED <<recording, app_running, status, guiVars, bgVars, frameVars,
                   websocket_connection, netVars, mgr, receiver, fileVars>>

\* the steps of the sender that handle no frame
SenderIdleStep(g) ==
    \/ SenderStart(g) \/ SenderGetTimeout(g) \/ SenderWake(g) \/ SenderCancelled(g)

\* the steps of the sender that handle a frame taken from the queue
SenderFrameStep(g) ==
    \/ SenderGet(g) \/ SenderGetUncancelled(g)
    \/ SenderSendOk(g) \/ SenderSendClosed(g) \/ SenderSendError(g)

SenderStep(g) == SenderIdleStep(g) \/ SenderFrameStep(g)

\* -------------------------------------------------------- receiver pipeline
MaxFramesToSave == SaveDuration * RATE
\* (variant of FramesInChunk: every byte counted as a frame)
FramesInChunkBytes(len) == len
\* frames_in_chunk = len(data) // (sample_width * CHANNELS)
FramesInChunk(len) == len \div (SAMPLE_WIDTH * CHANNELS)

\* (variant of FlushAtExit: the buffer is not examined)
FlushWhileSaving(r) == args_save /\ r.saving
\* the exit-time flush condition of the finally block
FlushAtExit(r) == args_save /\ Len(r.buf) > 0 /\ r.saving

\* save_buffered_audio_to_wav(...): the file is written, or the write raises
SaveOutcomes == {"saved", "failed"}
WavWrite(ww, g, chunks) == Append(ww, [gen |-> g, chunks |-> chunks])
SaveStatus(o) ==
    IF o = "saved" THEN St("Status: Saved audio to file")
    ELSE St("Status: Error saving to file")

\* receive_audio_from_websocket: the finally block, entered with locals r
ReceiverExit(g, r, ww, stat, o) ==
    /\ receiver' = [receiver EXCEPT ![g] = [NoReceiver EXCEPT !.pc = "done"]]
    /\ wav_writes' = IF FlushAtExit(r) THEN WavWrite(ww, g, r.buf) ELSE ww
    /\ status' = IF FlushAtExit(r) THEN SaveStatus(o) ELSE stat

\* "while app_running" and the branch taken, up to the next await
ReceiverLoop(g, r, ww, stat, o) ==
    IF ~app_running
    THEN ReceiverExit(g, r, ww, stat, o)
    ELSE /\ receiver' = [receiver EXCEPT ![g] =
                           IF websocket_connection # 0
                           THEN [r EXCEPT !.pc = "recv", !.conn = websocket_connection]
                           ELSE [r EXCEPT !.pc = "idle_sleep", !.conn = 0]]
         /\ wav_writes' = ww
         /\ status' = stat

\* the locals at task start
ReceiverLocals == [NoReceiver EXCEPT !.saving = args_save]

\* first step: speaker stream opened
ReceiverStart(g, o) ==
    /\ loop_running /\ receiver[g].pc = "new" /\ ~receiver[g].cancel
    /\ ReceiverLoop(g, [ReceiverLocals EXCEPT !.out = TRUE], wav_writes, status, o)
    /\ UNCHANGED <<recording, app_running, guiVars, bgVars, frameVars,
                   websocket_connection, netVars, mgr, sender, fixedVars>>

SpeakerFailStatus(kind) ==
    CASE kind = "nodevice" -> St("Error: No speaker found or invalid output device.")
      [] kind = "busy" -> St("Error: Speaker is busy or unavailable.")
      [] kind = "generic" -> St("Error: Could not open speaker. Check audio settings.")
      [] OTHER -> St("Status: Error - Cannot play audio (unexpected).")

\* first step: p.open(output=True) raises; the task returns
ReceiverSpeakerFail(g, kind) ==
    /\ loop_running /\ receiver[g].pc = "new" /\ ~receiver[g].cancel
    /\ ReceiverExit(g, ReceiverLocals, wav_writes, SpeakerFailStatus(kind), "saved")
    /\ UNCHANGED <<recording, app_running, guiVars, bgVars, frameVars,
                   websocket_connection, netVars, mgr, sender, fixedVars>>

\* (variant of AfterChunk: the write leaves the buffer and the flag as they are)
AfterChunkKeepsCapturing(r, len) ==
    IF len = 0 \/ ~r.saving THEN r
    ELSE [r EXCEPT !.buf = Append(r.buf, len), !.saved = r.saved + FramesInChunk(len)]

\* the locals after a received chunk of len bytes was played
AfterChunk(r, len) ==
    IF len = 0 \/ ~r.saving THEN r
    ELSE LET buf1 == Append(r.buf, len)
             saved1 == r.saved + FramesInChunk(len)
         IN IF saved1 >= MaxFramesToSave
            THEN [r EXCEPT !.buf = <<>>, !.saved = saved1, !.saving = FALSE]
            ELSE [r EXCEPT !.buf = buf1, !.saved = saved1]

\* whether the chunk of len bytes triggers the full flush
FlushNow(r, len) ==
    len # 0 /\ r.saving /\ r.saved + FramesInChunk(len) >= MaxFramesToSave

\* wait_for(websocket_connection.recv()) returns a message of len bytes to the
\* task, whose locals are r
ReceiverTake(g, r, len, o) ==
    /\ loop_running /\ receiver[g].pc = "recv"
    /\ conns[receiver[g].conn] = "open"
    /\ IF FlushNow(r, len)
       THEN ReceiverLoop(g, AfterChunk(r, len),
                         WavWrite(wav_writes, g, Append(r.buf, len)),
                         SaveStatus(o), o)
       ELSE ReceiverLoop(g, AfterChunk(r, len), wav_writes, status, o)
    /\ UNCHANGED <<recording, app_running, guiVars, bgVars, frameVars,
                   websocket_connection, netVars, mgr, sender, fixedVars>>

ReceiverRecv(g, len, o) == ~receiver[g].cancel /\ ReceiverTake(g, receiver[g], len, o)

\* the task was cancelled while the message was already there: wait_for (asyncio of
\* Python 3.8 to 3.11) returns the message and the cancellation is lost; a later
\* asyncio raises CancelledError instead (ReceiverCancelled)
ReceiverRecvUncancelled(g, len, o) ==
    receiver[g].cancel /\ ReceiverTake(g, [receiver[g] EXCEPT !.cancel = FALSE], len, o)

\* wait_for(websocket_connection.recv()) times out
ReceiverTimeout(g, o) ==
    /\ loop_running /\ receiver[g].pc = "recv" /\ ~receiver[g].cancel
    /\ ReceiverLoop(g, receiver[g], wav_writes, status, o)
    /\ UNCHANGED <<recording, app_running, guiVars, bgVars, frameVars,
                   websocket_connection, netVars, mgr, sender, fixedVars>>

\* recv raises ConnectionClosed
ReceiverClosed(g, o) ==
    /\ loop_running /\ receiver[g].pc = "recv" /\ ~receiver[g].cancel
    /\ conns[receiver[g].conn] # "open"
    /\ websocket_connection' = 0
    /\ ReceiverExit(g, receiver[g], wav_writes, St("Status: Connection lost (receive)."), o)
    /\ UNCHANGED <<recording, app_running, guiVars, bgVars, frameVars, netVars, mgr,
                   sender, fixedVars>>

\* recv or the playback write raises another exception
ReceiverError(g) ==
    /\ loop_running /\ receiver[g].pc = "recv" /\ ~receiver[g].cancel
    /\ status' = St("Status: Error receiving audio.")
    /\ receiver' = [receiver EXCEPT ![g] = [@ EXCEPT !.pc = "err_sleep", !.conn = 0]]
    /\ UNCHANGED <<recording, app_running, guiVars, bgVars, frameVars,
                   websocket_connection, netVars, mgr, sender, fileVars>>

\* asyncio.sleep(0.1) or asyncio.sleep(0.01) returns
ReceiverWake(g, o) ==
    /\ loop_running /\ receiver[g].pc \in {"err_sleep", "idle_sleep"} /\ ~receiver[g].cancel
    /\ ReceiverLoop(g, receiver[g], wav_writes, status, o)
    /\ UNCHANGED <<recording, app_running, guiVars, bgVars, frameVars,
                   websocket_connection, netVars, mgr, sender, fixedVars>>

\* CancelledError: before the first step nothing runs, afterwards the finally block does
ReceiverCancelled(g, o) ==
    /\ loop_running /\ Live(receiver[g]) /\ receiver[g].cancel
    /\ IF receiver[g].pc = "new"
       THEN /\ receiver' = [receiver EXCEPT ![g] = [NoReceiver EXCEPT !.pc = "done"]]
            /\ UNCHANGED <<wav_writes, status>>
       ELSE ReceiverExit(g, receiver[g], wav_writes, status, o)
    /\ UNCHANGED <<recording, app_running, guiVars, bgVars, frameVars,
                   websocket_connection, netVars, mgr, sender, fixedVars>>

\* a step of the receiver task; the outcome o of a file write matters only to a
\* step that flushes, so the steps that cannot flush take the one outcome "saved"
CanFlush(g) == args_save /\ receiver[g].saving

\* one step of receiver g when the peer's messages have the lengths lens
ReceiverStepOf(g, lens) ==
    \E o \in IF CanFlush(g) THEN SaveOutcomes ELSE {"saved"} :
        \/ ReceiverStart(g, o) \/ (\E k \in SpeakerFailKinds : ReceiverSpeakerFail(g, k))
        \/ (\E len \in lens : ReceiverRecv(g, len, o)) \/ ReceiverTimeout(g, o)
        \/ (\E len \in lens : ReceiverRecvUncancelled(g, len, o))
        \/ ReceiverClosed(g, o) \/ ReceiverError(g) \/ ReceiverWake(g, o)
        \/ ReceiverCancelled(g, o)

ReceiverStep(g) == ReceiverStepOf(g, ChunkLens)

\* ------------------------------------------------------- connection manager
\* (variant of NextDelay: the cap is missing)
NextDelayNoCap(d) == d * 2
\* min(current_retry_delay * 2, MAX_RETRY_DELAY)
NextDelay(d) == Min(d * 2, MAX_RETRY_DELAY)

\* the one place the manager's step assigns what it owns or shares
MgrSet(m, h, sf, rf, cs, stat) ==
    /\ mgr' = m
    /\ websocket_connection' = h
    /\ sender' = sf
    /\ receiver' = rf
    /\ conns' = cs
    /\ status' = stat

\* the tasks the manager holds that are not done
PendingSend(m, sf) == m.send_task # 0 /\ Live(sf[m.send_task])
PendingRecv(m, rf) == m.receive_task # 0 /\ Live(rf[m.receive_task])

\* "if t and not t.done(): t.cancel()" on both tasks
CancelSend(m, sf) == IF m.send_task # 0 THEN [sf EXCEPT ![m.send_task] = Cancel(@)] ELSE sf
CancelRecv(m, rf) == IF m.receive_task # 0 THEN [rf EXCEPT ![m.receive_task] = Cancel(@)] ELSE rf

\* (variant of PingFailRecv: the receiver is not cancelled)
PingFailRecvKept(m, rf) == rf
\* the tasks cancelled when a ping fails
PingFailSend(m, sf) == CancelSend(m, sf)
PingFailRecv(m, rf) == CancelRecv(m, rf)

\* (variant of HandleAfterClose: the handle is not cleared)
HandleKept(h) == h
\* the handle after "await websocket_connection.close()"
HandleAfterClose(h) == 0

\* (variant of MgrClose: close() is awaited whether or not there is a handle)
MgrCloseAlways(m, h, sf, rf, cs, stat) ==
    MgrSet([m EXCEPT !.pc = "closing"], h, sf, rf, cs, stat)
\* shutdown: "if websocket_connection: await websocket_connection.close()"
MgrClose(m, h, sf, rf, cs, stat) ==
    IF h # 0
    THEN MgrSet([m EXCEPT !.pc = "closing"], h, sf, rf,
                [cs EXCEPT ![h] = IF @ = "open" THEN "closed_client" ELSE @], stat)
    ELSE MgrSet([m EXCEPT !.pc = "done"], h, sf, rf, cs, stat)

\* (variant of ShutdownCancels: the connection is closed without cancelling the tasks)
ShutdownCancelsNone(m, sf, rf) == FALSE
\* the tasks the shutdown sequence cancels and waits for
ShutdownCancels(m, sf, rf) == PendingSend(m, sf) \/ PendingRecv(m, rf)

\* the shutdown sequence after the loop
MgrShutdown(m, h, sf, rf, cs, stat) ==
    IF ShutdownCancels(m, sf, rf)
    THEN MgrSet([m EXCEPT !.pc = "shutdown_gather"], h, CancelSend(m, sf), CancelRecv(m, rf),
                cs, stat)
    ELSE MgrClose(m, h, sf, rf, cs, stat)

\* "while app_running" and the branch taken, up to the next await
MgrResume(m, h, sf, rf, cs, stat) ==
    IF ~app_running
    THEN MgrShutdown(m, h, sf, rf, cs, stat)
    ELSE IF h = 0
    THEN MgrSet([m EXCEPT !.pc = "connecting"], h, sf, rf, cs,
                IF m.delay = INITIAL_RETRY_DELAY THEN St("Status: Connecting to ANDROID_PHONE_IP...") ELSE stat)
    ELSE MgrSet([m EXCEPT !.pc = "pinging", !.ping_conn = h], h, sf, rf, cs, stat)

\* create_task(send_audio_to_websocket()), create_task(receive_audio_from_websocket())
MgrCreate(m, h, sf, rf, cs, stat) ==
    MgrResume([m EXCEPT !.send_task = m.gen, !.receive_task = m.gen], h,
              [sf EXCEPT ![m.gen] = [NoSender EXCEPT !.pc = "new"]],
              [rf EXCEPT ![m.gen] = [NoReceiver EXCEPT !.pc = "new"]], cs, stat)

\* first step of the manager task
MgrStart ==
    /\ loop_running /\ mgr.pc = "new"
    /\ MgrResume(mgr, websocket_connection, sender, receiver, conns, status)
    /\ UNCHANGED <<recording, app_running, guiVars, bgVars, frameVars, n_conns, fileVars>>

ConnectedStatus ==
    IF args_save THEN St("Status: Connected (Saving)") ELSE St("Status: Connected. Streaming...")

\* websockets.connect succeeds
MgrConnectOk ==
    /\ loop_running /\ mgr.pc = "connecting"
    /\ n_conns < MaxConns
    /\ n_conns' = n_conns + 1
    /\ LET c == n_conns + 1
           m1 == [mgr EXCEPT !.delay = INITIAL_RETRY_DELAY, !.fails = 0, !.gen = c]
           sf == CancelSend(mgr, sender)
           rf == CancelRecv(mgr, receiver)
           cs == [conns EXCEPT ![c] = "open"]
       IN  IF mgr.send_task # 0
           THEN MgrSet([m1 EXCEPT !.pc = "gather_send"], c, sf, rf, cs, ConnectedStatus)
           ELSE IF mgr.receive_task # 0
           THEN MgrSet([m1 EXCEPT !.pc = "gather_recv"], c, sf, rf, cs, ConnectedStatus)
           ELSE MgrCreate(m1, c, sf, rf, cs, ConnectedStatus)
    /\ UNCHANGED <<recording, app_running, guiVars, bgVars, frameVars, fileVars>>

\* (variant of MgrGatherSend: the old sender is not waited for)
MgrGatherSendNoWait ==
    /\ loop_running /\ mgr.pc = "gather_send"
    /\ IF mgr.receive_task # 0
       THEN MgrSet([mgr EXCEPT !.pc = "gather_recv"], websocket_connection, sender, receiver,
                   conns, status)
       ELSE MgrCreate(mgr, websocket_connection, sender, receiver, conns, status)
    /\ UNCHANGED <<recording, app_running, guiVars, bgVars, frameVars, n_conns, fileVars>>

\* "await asyncio.gather(send_task, return_exceptions=True)" returns
MgrGatherSend ==
    /\ loop_running /\ mgr.pc = "gather_send"
    /\ Done(sender[mgr.send_task])
    /\ IF mgr.receive_task # 0
       THEN MgrSet([mgr EXCEPT !.pc = "gather_recv"], websocket_connection, sender, receiver,
                   conns, status)
       ELSE MgrCreate(mgr, websocket_connection, sender, receiver, conns, status)
    /\ UNCHANGED <<recording, app_running, guiVars, bgVars, frameVars, n_conns, fileVars>>

\* (variant of MgrGatherRecv: the old receiver is not waited for)
MgrGatherRecvNoWait ==
    /\ loop_running /\ mgr.pc = "gather_recv"
    /\ MgrCreate(mgr, websocket_connection, sender, receiver, conns, status)
    /\ UNCHANGED <<recording, app_running, guiVars, bgVars, frameVars, n_conns, fileVars>>

\* "await asyncio.gather(receive_task, return_exceptions=True)" returns
MgrGatherRecv ==
    /\ loop_running /\ mgr.pc = "gather_recv"
    /\ Done(receiver[mgr.receive_task])
    /\ MgrCreate(mgr, websocket_connection, sender, receiver, conns, status)
    /\ UNCHANGED <<recording, app_running, guiVars, bgVars, frameVars, n_conns, fileVars>>

RetryStatus(kind, d) ==
    CASE kind = "timeout" -> StN("Status: Connection timed out. Retrying", d)
      [] kind = "refused" -> StN("Status: Connection refused. Retrying", d)
      [] kind = "oserror" -> StN("Status: Network error. Retrying", d)
      [] OTHER -> StN("Status: Connection error. Retrying", d)

\* the except clauses of the connection attempt, up to asyncio.sleep
ConnectFailed(kind) ==
    MgrSet([mgr EXCEPT !.pc = "backoff", !.fails = Min(@ + 1, MaxFails)], 0, sender,
           receiver, conns, RetryStatus(kind, mgr.delay))

\* the connection attempt fails; the peer lets fewer than cap attempts in a row fail
MgrConnectFail(kind, cap) ==
    /\ loop_running /\ mgr.pc = "connecting"
    /\ mgr.fails < cap
    /\ ConnectFailed(kind)
    /\ UNCHANGED <<recording, app_running, guiVars, bgVars, frameVars, n_conns, fileVars>>

\* after the sleep: the delay is doubled up to the cap, then "while app_running"
BackoffWoken ==
    MgrResume([mgr EXCEPT !.delay = NextDelay(@)], websocket_connection, sender, receiver,
              conns, status)

\* "await asyncio.sleep(current_retry_delay)" returns
MgrBackoffWake ==
    /\ loop_running /\ mgr.pc = "backoff"
    /\ BackoffWoken
    /\ UNCHANGED <<recording, app_running, guiVars, bgVars, frameVars, n_conns, fileVars>>

\* the ping is answered in time
MgrPingOk ==
    /\ loop_running /\ mgr.pc = "pinging"
    /\ conns[mgr.ping_conn] = "open"
    /\ MgrSet([mgr EXCEPT !.pc = "ping_sleep", !.delay = INITIAL_RETRY_DELAY, !.fails = 0,
                          !.ping_conn = 0],
              websocket_connection, sender, receiver, conns, status)
    /\ UNCHANGED <<recording, app_running, guiVars, bgVars, frameVars, n_conns, fileVars>>

PingFailStatus(kind, d) ==
    IF kind = "other" THEN StN("Status: Connection error (ping). Retrying", d)
    ELSE StN("Status: Connection lost. Retrying", d)

\* the ping times out, finds the connection closed, or raises
MgrPingFail(kind) ==
    /\ loop_running /\ mgr.pc = "pinging"
    /\ kind = "closed" => conns[mgr.ping_conn] # "open"
    /\ MgrSet([mgr EXCEPT !.pc = "ping_sleep", !.ping_conn = 0], 0,
              PingFailSend(mgr, sender), PingFailRecv(mgr, receiver), conns,
              PingFailStatus(kind, mgr.delay))
    /\ UNCHANGED <<recording, app_running, guiVars, bgVars, frameVars, n_conns, fileVars>>

\* "await asyncio.sleep(1)" returns
MgrPingSleepWake ==
    /\ loop_running /\ mgr.pc = "ping_sleep"
    /\ MgrResume(mgr, websocket_connection, sender, receiver, conns, status)
    /\ UNCHANGED <<recording, app_running, guiVars, bgVars, frameVars, n_conns, fileVars>>

\* shutdown: "await asyncio.gather(*tasks_to_cancel, return_exceptions=True)" returns
MgrShutdownGathered ==
    /\ loop_running /\ mgr.pc = "shutdown_gather"
    /\ ~PendingSend(mgr, sender) /\ ~PendingRecv(mgr, receiver)
    /\ MgrClose(mgr, websocket_connection, sender, receiver, conns, status)
    /\ UNCHANGED <<recording, app_running, guiVars, bgVars, frameVars, n_conns, fileVars>>

\* shutdown: close() returns, "websocket_connection = None"
MgrClosed ==
    /\ loop_running /\ mgr.pc = "closing"
    /\ MgrSet([mgr EXCEPT !.pc = "done"], HandleAfterClose(websocket_connection), sender,
              receiver, conns, status)
    /\ UNCHANGED <<recording, app_running, guiVars, bgVars, frameVars, n_conns, fileVars>>

\* ------------------------------------------------- the manager, with time
\* the ticks asyncio.sleep(current_retry_delay) takes
BackoffTicks(m) == m.delay * TicksPerSecond
\* the backoff sleep is over: it is a plain asyncio.sleep, nothing else ends it
TimedWaitOver(m, t) == t >= BackoffTicks(m)

\* what the timed steps of the manager leave unchanged
untimedVars == <<recording, app_running, guiVars, bgVars, frameVars, n_conns, args_save,
                 wav_writes, server_pc, sessions>>

\* the connection attempt fails after slept ticks: with a timeout when the 6 s
\* of wait_for have passed, with a refusal or another error before
TimedConnectFail(kind) ==
    /\ loop_running /\ mgr.pc = "connecting"
    /\ (kind = "timeout") = (slept = ConnectTimeoutTicks)
    /\ ConnectFailed(kind)
    /\ slept' = 0
    /\ UNCHANGED <<since_stop, untimedVars>>

\* "await asyncio.sleep(current_retry_delay)" returns when the delay has passed
TimedBackoffWake ==
    /\ loop_running /\ mgr.pc = "backoff"
    /\ TimedWaitOver(mgr, slept)
    /\ BackoffWoken
    /\ slept' = 0
    /\ UNCHANGED <<since_stop, untimedVars>>

\* one poll interval passes while the manager waits in connect() or in the
\* backoff sleep; since_stop counts the ticks since app_running was cleared
Tick ==
    /\ loop_running
    /\ \/ mgr.pc = "backoff" /\ ~TimedWaitOver(mgr, slept)
       \/ mgr.pc = "connecting" /\ slept < ConnectTimeoutTicks
    /\ slept' = slept + 1
    /\ since_stop' = IF app_running THEN since_stop ELSE Min(since_stop + 1, PollTicks + 1)
    /\ UNCHANGED <<recording, app_running, status, guiVars, bgVars, frameVars,
                   websocket_connection, netVars, taskVars, args_save, wav_writes,
                   server_pc, sessions>>

\* ------------------------------------------------- closing the main window
\* time.sleep(0.5) of on_closing_main_window, in ticks
CloseSleepTicks == 5

\* on_closing_main_window up to time.sleep(0.5): app_running is cleared; from
\* here since_stop counts the ticks of the sleep
on_closing_main_window ==
    /\ gui_pc = "idle"
    /\ app_running' = FALSE
    /\ gui_pc' = "close_sleep"
    /\ since_stop' = 0
    /\ UNCHANGED <<recording, status, start_button, stop_button, runs, bgVars, frameVars,
                   websocket_connection, netVars, taskVars, args_save, wav_writes,
                   server_pc, sessions, slept>>

\* the background thread can only wait: its manager is inside a connection
\* attempt or a backoff sleep that is not over
ManagerWaits ==
    /\ bg_pc = "running" /\ loop_running
    /\ \/ mgr.pc = "backoff" /\ ~TimedWaitOver(mgr, slept)
       \/ mgr.pc = "connecting" /\ slept < ConnectTimeoutTicks

\* 0.1 s of time.sleep(0.5) pass: the background thread has ended or waits
CloseTick ==
    /\ gui_pc = "close_sleep" /\ since_stop < CloseSleepTicks
    /\ bg_pc \in {"none", "finished"} \/ ManagerWaits
    /\ slept' = IF ManagerWaits THEN slept + 1 ELSE slept
    /\ since_stop' = since_stop + 1
    /\ UNCHANGED <<recording, app_running, status, guiVars, bgVars, frameVars,
                   websocket_connection, netVars, taskVars, args_save, wav_writes,
                   server_pc, sessions>>

\* time.sleep(0.5) returns: nothing else is waited for
CloseSleepOver == since_stop = CloseSleepTicks

\* on_closing_main_window after the sleep: p.terminate(), root.destroy()
on_closing_terminate ==
    /\ gui_pc = "close_sleep"
    /\ CloseSleepOver
    /\ gui_pc' = "closed"
    /\ UNCHANGED <<recording, app_running, status, start_button, stop_button, runs, bgVars,
                   frameVars, websocket_connection, netVars, taskVars, fileVars>>

\* --------------------------- the manager, with the library's names looked up
\* The except clauses of the connection attempt name asyncio.TimeoutError first
\* and websockets.exceptions.ConnectionRefusedError second. A failure that is
\* not a timeout makes Python evaluate the second name; the websockets library
\* is not part of the repository, and with a release whose exceptions module
\* does not define that name the lookup raises AttributeError.
NeedsLookup(kind) == kind # "timeout"

\* the connection attempt fails and the lookup of the second except clause
\* raises: the exception leaves websocket_client_manager
MgrConnectUnresolved(kind) ==
    /\ loop_running /\ mgr.pc = "connecting"
    /\ NeedsLookup(kind)
    /\ MgrSet([mgr EXCEPT !.pc = "raised"], websocket_connection, sender, receiver, conns,
              status)
    /\ UNCHANGED <<recording, app_running, guiVars, bgVars, frameVars, n_conns, fileVars>>

\* loop.run_until_complete(manager_task) raises the manager's exception:
\* "except Exception" reports it and clears app_running
BgLoopRaised ==
    /\ bg_pc = "running"
    /\ mgr.pc = "raised"
    /\ status' = St("Status: Critical Error")
    /\ app_running' = FALSE
    /\ loop_running' = FALSE
    /\ bg_pc' = "finally"
    /\ UNCHANGED <<recording, guiVars, audio_stream, websocket_loop, frameVars,
                   websocket_connection, netVars, taskVars, fileVars>>

MgrStep(cap) ==
    \/ MgrStart \/ MgrConnectOk \/ MgrGatherSend \/ MgrGatherRecv
    \/ (\E k \in ConnectFailKinds : MgrConnectFail(k, cap)) \/ MgrBackoffWake
    \/ MgrPingOk \/ (\E k \in PingFailKinds : MgrPingFail(k)) \/ MgrPingSleepWake
    \/ MgrShutdownGathered \/ MgrClosed

BgStep ==
    \/ BgOpenMic \/ (\E k \in MicFailKinds : BgMicFail(k)) \/ BgRunLoop \/ BgLoopReturn
    \/ BgFinally

GuiStep == start_recording_wrapper \/ stop_recording_wrapper \/ stop_clear_app_running

\* ------------------------------------------------- server (android_server.py)
\* int(SINE_DURATION * RATE)
NumSamples == (SINE_DURATION_TENTHS * SERVER_RATE) \div 10
\* (variant of ReplyBytes: the reply is as long as the message)
ReplyEcho(len) == len
\* len(audio_bytes): the int16 samples of the tone, whatever the message of len bytes was
ReplyBytes(len) == NumSamples * INT16_BYTES

SessionSet(s, rec) == sessions' = [sessions EXCEPT ![s] = rec]

\* (variant of Terminate: PortAudio is released, the streams are left as they are)
TerminateOnly(r) == [r EXCEPT !.pa = "terminated"]
\* p.terminate(): closes the streams of this PyAudio instance and releases PortAudio
Terminate(r) ==
    [r EXCEPT !.pa = "terminated",
              !.stream = IF r.stream = "none" THEN "none" ELSE "closed"]

\* the finally block of handler; stop_ok tells whether stop_stream() returns
\* (otherwise it raises, close() is skipped and the error is printed)
Finally(r, stop_ok) ==
    LET r1 == IF r.stream = "none" THEN r
              ELSE IF r.stream = "active" /\ ~stop_ok THEN r
              ELSE [r EXCEPT !.stream = "closed"]
    IN  [Terminate(r1) EXCEPT !.pc = "done"]

\* (variant of HandlerExit: the teardown of one session closes every session's stream)
HandlerExitAll(ss, s, stop_ok) ==
    [t \in Sessions |-> IF t = s THEN Finally(ss[t], stop_ok)
                        ELSE [ss[t] EXCEPT !.stream = IF @ = "none" THEN @ ELSE "closed"]]
\* the sessions after the handler of session s has run its finally block
HandlerExit(ss, s, stop_ok) == [ss EXCEPT ![s] = Finally(ss[s], stop_ok)]

\* main: websockets.serve(...) returns, the server listens
MainServeOk ==
    /\ server_pc = "starting"
    /\ server_pc' = "listening"
    /\ UNCHANGED <<clientVars, sessions>>

\* (variant of AfterServeFail: main returns)
ServeFailEnds == "stopped"
\* where main goes when websockets.serve(...) raises: both except clauses fall
\* through to the sleep before the next attempt
AfterServeFail == "retry_sleep"

\* main: websockets.serve(...) raises (OSError or other)
ServeFailed == server_pc = "starting" /\ server_pc' = AfterServeFail
MainServeFail == ServeFailed /\ UNCHANGED <<clientVars, sessions>>

\* main: asyncio.sleep(5) returns
RetryWoken == server_pc = "retry_sleep" /\ server_pc' = "starting"
MainRetryWake == RetryWoken /\ UNCHANGED <<clientVars, sessions>>

\* main with its wait measured: asyncio.sleep(5) in ticks of 0.1 s, counted in slept
MainRetrySeconds == 5
RetrySleepTicks == MainRetrySeconds * TicksPerSecond

\* what no step of main changes besides the count of time
mainUntimedVars == <<recording, app_running, status, guiVars, bgVars, frameVars,
                     websocket_connection, netVars, taskVars, args_save, wav_writes,
                     since_stop, sessions>>

TimedMainServeFail == ServeFailed /\ slept' = 0 /\ UNCHANGED mainUntimedVars

\* 0.1 s of the sleep pass
MainSleepTick ==
    /\ server_pc = "retry_sleep" /\ slept < RetrySleepTicks
    /\ slept' = slept + 1
    /\ UNCHANGED <<server_pc, mainUntimedVars>>

TimedMainRetryWake ==
    /\ RetryWoken /\ slept = RetrySleepTicks
    /\ UNCHANGED <<slept, mainUntimedVars>>

TimedMainStep == MainServeOk \/ TimedMainServeFail \/ MainSleepTick \/ TimedMainRetryWake

\* (variant of AfterOpenFail: the handler goes on to read messages)
OpenFailIgnored(r) == [r EXCEPT !.pc = "wait_msg"]
\* handler: p.open raises; "return" runs the finally block
AfterOpenFail(r) == Finally(r, TRUE)

\* a client connects: handler starts, PyAudio(), the playback stream opens
HandlerOpenOk(s) ==
    /\ server_pc = "listening" /\ sessions[s].pc = "free"
    /\ SessionSet(s, [sessions[s] EXCEPT !.pc = "wait_msg", !.pa = "live",
                                         !.stream = "active"])
    /\ UNCHANGED <<clientVars, server_pc>>

\* a client connects: handler starts, PyAudio(), p.open raises
HandlerOpenFail(s) ==
    /\ server_pc = "listening" /\ sessions[s].pc = "free"
    /\ SessionSet(s, AfterOpenFail([sessions[s] EXCEPT !.pa = "live"]))
    /\ UNCHANGED <<clientVars, server_pc>>

\* the playback stream stops being active (device lost)
StreamInactive(s) ==
    /\ sessions[s].stream = "active" /\ sessions[s].pc = "wait_msg"
    /\ SessionSet(s, [sessions[s] EXCEPT !.stream = "inactive"])
    /\ UNCHANGED <<clientVars, server_pc>>

\* (variant of AfterWrite: the reply is sent although the playback write raised)
ReplyRegardless(r, len, write_ok) ==
    [r EXCEPT !.pc = "sending", !.msg_len = len, !.played = IF write_ok THEN @ + 1 ELSE @]
\* handler: stream.write(message) of a message of len bytes returns, the tone is
\* computed and websocket.send is called; or the write raises and the loop breaks
AfterWrite(r, len, write_ok) ==
    IF write_ok THEN [r EXCEPT !.pc = "sending", !.msg_len = len, !.played = @ + 1]
    ELSE [r EXCEPT !.pc = "break"]

\* "async for message in websocket" yields a message of len bytes: playback, or
\* "break" when the stream is not active or the write raises
HandlerMessage(s, len, write_ok, stop_ok) ==
    /\ sessions[s].pc = "wait_msg" /\ sessions[s].recv < MaxMsgs
    /\ LET r == [sessions[s] EXCEPT !.recv = @ + 1]
           w == AfterWrite(r, len, write_ok)
       IN  sessions' = IF r.stream = "active" /\ w.pc = "sending"
                       THEN [sessions EXCEPT ![s] = w]
                       ELSE HandlerExit([sessions EXCEPT ![s] = r], s, stop_ok)
    /\ UNCHANGED <<clientVars, server_pc>>

\* websocket.send(audio_bytes) returns; the handler awaits the next message
HandlerSendOk(s) ==
    /\ sessions[s].pc = "sending"
    /\ SessionSet(s, [sessions[s] EXCEPT
                        !.pc = "wait_msg", !.replies = @ + 1, !.msg_len = 0,
                        !.answered = @ \cup {sessions[s].msg_len},
                        !.reply_lens = @ \cup {ReplyBytes(sessions[s].msg_len)}])
    /\ UNCHANGED <<clientVars, server_pc>>

\* websocket.send raises: ConnectionClosed is raised again and caught outside the
\* loop, any other exception breaks the loop; both end in the finally block
HandlerSendFail(s, stop_ok) ==
    /\ sessions[s].pc = "sending"
    /\ sessions' = HandlerExit(sessions, s, stop_ok)
    /\ UNCHANGED <<clientVars, server_pc>>

\* the client closes the connection (cleanly: the loop ends; with an error:
\* ConnectionClosedError is caught) while the handler awaits a message
HandlerClosed(s, stop_ok) ==
    /\ sessions[s].pc = "wait_msg"
    /\ sessions' = HandlerExit(sessions, s, stop_ok)
    /\ UNCHANGED <<clientVars, server_pc>>

\* a step of session s that ends it on a failure
HandlerFailure(s) ==
    \/ HandlerOpenFail(s)
    \/ (\E len \in InboundLens, stop_ok \in BOOLEAN :
           HandlerMessage(s, len, FALSE, stop_ok))
    \/ (\E stop_ok \in BOOLEAN : HandlerSendFail(s, stop_ok))

HandlerStep(s) ==
    \/ HandlerOpenOk(s) \/ HandlerOpenFail(s) \/ StreamInactive(s)
    \/ (\E len \in InboundLens, write_ok \in BOOLEAN, stop_ok \in BOOLEAN :
           HandlerMessage(s, len, write_ok, stop_ok))
    \/ HandlerSendOk(s)
    \/ (\E stop_ok \in BOOLEAN : HandlerSendFail(s, stop_ok) \/ HandlerClosed(s, stop_ok))

MainStep == MainServeOk \/ MainServeFail \/ MainRetryWake

\* ------------------------------------------------------------ specification
\* the steps that involve no captured frame; refusals limits the peer's failures in a row
NextCore(refusals) ==
    \/ GuiStep
    \/ BgStep
    \/ (\E c \in Gens : PeerClose(c))
    \/ MgrStep(refusals)
    \/ (\E g \in Gens : SenderIdleStep(g))
    \/ (\E g \in Gens : ReceiverStep(g))

\* no limit: the count of failures in a row saturates at MaxFails
Unlimited == MaxFails + 1

\* The program as written.  The callback runs on the PortAudio thread, where the
\* lookup of websocket_loop finds nothing: no frame ever reaches the queue, so
\* the sender's frame steps are never enabled and are left out of this
\* next-state relation.
Next == NextCore(MaxRefusals) \/ audio_callback(HardwareThread, MaxLost)

Spec == Init /\ [][Next]_vars

\* The same program without file capture and with any number of failed attempts.
InitNoSave == Init /\ ~args_save

NextBackoff == NextCore(Unlimited) \/ audio_callback(HardwareThread, MaxLost)

SpecBackoff == InitNoSave /\ [][NextBackoff]_vars

\* The hand-off as the callback's comment describes it: the callback finds the
\* background thread's loop, frames reach the queue and the sender sends them.
NextFeed ==
    \/ NextCore(MaxRefusals)
    \/ audio_callback(LoopThread, MaxFrames)
    \/ LoopRunPut
    \/ (\E g \in Gens : SenderFrameStep(g))

SpecFeed == InitNoSave /\ [][NextFeed]_vars

\* The client with file capture on (--save-received-audio given), a silent
\* microphone and a peer that sends messages of the lengths CaptureLens.
InitSave == Init /\ args_save

\* failed connection attempts in a row the peer of this specification causes
CaptureRefusals == 1

NextCapture ==
    \/ GuiStep
    \/ BgStep
    \/ (\E c \in Gens : PeerClose(c))
    \/ MgrStep(CaptureRefusals)
    \/ (\E g \in Gens : SenderIdleStep(g))
    \/ (\E g \in Gens : ReceiverStepOf(g, CaptureLens))

SpecCapture == InitSave /\ [][NextCapture]_vars

\* The client over a session in which Start can be pressed again after a run
\* has ended.
MaxRestarts == 1

NextRuns ==
    \/ StartRecording(MaxRuns + MaxRestarts)
    \/ stop_recording_wrapper
    \/ stop_clear_app_running
    \/ BgStep
    \/ (\E c \in Gens : PeerClose(c))
    \/ MgrStep(CaptureRefusals)
    \/ (\E g \in Gens : SenderIdleStep(g))
    \/ (\E g \in Gens : ReceiverStep(g))

SpecRuns == InitNoSave /\ [][NextRuns]_vars

\* The client with a websockets library that may not define every exception
\* name the manager's except clauses look up.
NextLib ==
    \/ NextBackoff
    \/ (\E k \in ConnectFailKinds : MgrConnectUnresolved(k))
    \/ BgLoopRaised

SpecLib == InitNoSave /\ [][NextLib]_vars

\* The client with time, against a peer that lets every connection attempt fail.
NextTimed ==
    \/ GuiStep
    \/ BgStep
    \/ MgrStart
    \/ (\E k \in ConnectFailKinds : TimedConnectFail(k))
    \/ TimedBackoffWake
    \/ Tick

SpecTimed == InitNoSave /\ [][NextTimed]_vars

\* The same with the main window closed at any moment.
NextClose ==
    \/ (gui_pc # "close_sleep" /\ NextTimed)
    \/ (gui_pc = "close_sleep" /\ (BgStep \/ TimedBackoffWake
                                     \/ \E k \in ConnectFailKinds : TimedConnectFail(k)))
    \/ on_closing_main_window
    \/ CloseTick
    \/ on_closing_terminate

SpecClose == InitNoSave /\ [][NextClose]_vars

NextServer == MainStep \/ (\E s \in Sessions : HandlerStep(s))
SpecServer == InitNoSave /\ [][NextServer]_vars

\* The server with the wait of main measured. asyncio runs main whenever it can
\* continue: serve() returns or raises, and the sleep ends after its 5 s.
NextMain == TimedMainStep \/ (\E s \in Sessions : HandlerStep(s))
SpecMain == InitNoSave /\ [][NextMain]_vars /\ WF_vars(TimedMainStep)

\* Every bounded wait returns: each task of the loop, the background thread and
\* the Stop handler take their next step when it stays enabled.
Fairness ==
    /\ WF_vars(MgrStep(Unlimited))
    /\ WF_vars(BgStep)
    /\ WF_vars(stop_clear_app_running)
    /\ \A g \in Gens : WF_vars(SenderIdleStep(g)) /\ WF_vars(ReceiverStep(g))

SpecFair == InitNoSave /\ [][NextBackoff]_vars /\ Fairness

\* The same for a peer that accepts a connection after at most MaxRefusals
\* failed attempts in a row: connection attempts eventually succeed.
FairnessPeer ==
    /\ WF_vars(MgrStep(MaxRefusals))
    /\ WF_vars(BgStep)
    /\ WF_vars(stop_clear_app_running)
    /\ \A g \in Gens : WF_vars(SenderIdleStep(g)) /\ WF_vars(ReceiverStep(g))

SpecLive == InitNoSave /\ [][Next]_vars /\ FairnessPeer

\* ------------------------------------------------------------------ claims
\* C1: the delay slept after the k-th consecutive failed connection attempt is
\* min(2^(k-1), 30); it is never below 1 nor above 30, and after a successful
\* connect or ping (no failure counted) the next delay is 1.
C1_BackoffDelay ==
    /\ mgr.delay >= INITIAL_RETRY_DELAY /\ mgr.delay <= MAX_RETRY_DELAY
    /\ mgr.pc = "backoff" =>
          mgr.fails >= 1 /\ mgr.delay = Min(2 ^ (mgr.fails - 1), MAX_RETRY_DELAY)
    /\ mgr.pc \notin {"backoff", "none"} => mgr.delay = Min(2 ^ mgr.fails, MAX_RETRY_DELAY)
    /\ mgr.fails = 0 /\ mgr.pc # "none" => mgr.delay = INITIAL_RETRY_DELAY

\* a seventh failure in a row, after a success had reset the delay
C1_Witness == mgr.pc = "backoff" /\ mgr.fails = MaxFails /\ n_conns >= 1

\* C2: at most one connection opened by the manager is open at any time.
C2_OneOpenConnection == Cardinality(OpenConns) <= 1

\* C3: the frames written to the connection appear in the order they were
\* enqueued (frames are numbered in that order).
C3_SentInOrder ==
    \A i, j \in 1..Len(sent) : i < j => sent[i].frame < sent[j].frame

\* two frames sent, the second after a reconnect
C3_Witness == Len(sent) >= 2 /\ sent[1].conn # sent[2].conn

\* C4: a frame delivered to the callback while recording and app_running are
\* true and the loop is running is handed to the loop for the queue.
C4_CallbackEnqueues ==
    [][(captured' = captured + 1 /\ loop_running)
          => put_pending' = Append(put_pending, captured')]_vars

\* C5: the WAV file sink is invoked at most once in a run.
C5_OneWavWritePerRun == Len(wav_writes) <= 1

\* C6: no send is attempted on a connection the client has closed, and a
\* connection the manager has closed has every pipeline task created up to it done.
C6_NoSendAfterClose ==
    /\ \A g \in Gens : sender[g].pc = "send" => conns[sender[g].conn] # "closed_client"
    /\ \A c \in Gens : conns[c] = "closed_client" =>
          \A g \in 1..c : Done(sender[g]) /\ Done(receiver[g])

\* the manager closed the connection at Stop after a frame had been sent on it
C6_Witness ==
    \E c \in Gens : conns[c] = "closed_client" /\ Len(sent) >= 1 /\ sent[1].conn = c

\* the run is over: manager and pipelines done, handle cleared, microphone closed,
\* 'Stopped.' reported and Start enabled
Terminated ==
    /\ bg_pc = "finished"
    /\ mgr.pc \in {"none", "done"}
    /\ \A g \in Gens : Done(sender[g]) /\ Done(receiver[g])
    /\ websocket_connection = 0
    /\ audio_stream = "none"
    /\ status = St("Status: Stopped.")
    /\ start_button = "normal"

C8_PingFailureTeardown ==
    [][/\ (\E k \in PingFailKinds : MgrPingFail(k)) =>
             /\ websocket_connection' = 0
             /\ mgr'.pc = "ping_sleep"
             /\ PendingSend(mgr, sender) => sender'[mgr.send_task].cancel
             /\ PendingRecv(mgr, receiver) => receiver'[mgr.receive_task].cancel
       /\ (mgr.pc = "ping_sleep" /\ mgr'.pc # "ping_sleep" /\ websocket_connection = 0
             /\ app_running) => mgr'.pc = "connecting"]_vars

\* after a failed ping both tasks have their cancellation pending
C8_Witness ==
    /\ mgr.pc = "ping_sleep" /\ websocket_connection = 0
    /\ PendingSend(mgr, sender) /\ sender[mgr.send_task].cancel
    /\ PendingRecv(mgr, receiver) /\ receiver[mgr.receive_task].cancel

\* C9 as stated: when the manager begins a connection attempt, no pipeline task
\* cancelled by the ping failure is still to complete.
C9_CompletedBeforeAttempt ==
    mgr.pc = "connecting" =>
        \A g \in Gens : ~(Live(sender[g]) /\ sender[g].cancel)
                        /\ ~(Live(receiver[g]) /\ receiver[g].cancel)

\* C9 as amended: the step in which a ping fails requests the cancellation of
\* both tasks, and the manager creates the tasks of the next generation only
\* when every task created before is done.
C9_CancelledThenAwaited ==
    [][/\ (\E k \in PingFailKinds : MgrPingFail(k)) =>
             /\ PendingSend(mgr, sender) => sender'[mgr.send_task].cancel
             /\ PendingRecv(mgr, receiver) => receiver'[mgr.receive_task].cancel
       /\ (mgr'.send_task # mgr.send_task) =>
             \A g \in Gens : Done(sender[g]) /\ Done(receiver[g])]_vars

\* reconnected after a failed ping on a connection still open: the manager waits
\* for the old sender, whose cancellation is pending
C9_Witness ==
    /\ mgr.pc = "gather_send" /\ Live(sender[mgr.send_task]) /\ sender[mgr.send_task].cancel
    /\ conns[mgr.send_task] = "open"

\* C10: when one pipeline of a generation has exited, the other one exits too.
C10_TornDownTogether ==
    \A g \in Gens :
        /\ (receiver[g].pc = "done" /\ Live(sender[g])) ~> Done(sender[g])
        /\ (sender[g].pc = "done" /\ Live(receiver[g])) ~> Done(receiver[g])

C12_RequestResponse ==
    \A s \in Sessions :
        LET r == sessions[s]
        IN  /\ r.replies <= r.played /\ r.played <= r.recv /\ r.recv <= r.replies + 1
            /\ r.pc = "sending" => r.played = r.recv /\ r.replies = r.recv - 1
            /\ r.pc = "wait_msg" => r.replies = r.recv

\* a session that answered two messages in turn
C12_Witness == \E s \in Sessions : sessions[s].replies = MaxMsgs /\ sessions[s].pc = "wait_msg"

\* C13: every reply of the server is 44100 bytes long (22050 samples of 2 bytes),
\* whatever the length of the message it answers.
C13_ReplyLength ==
    \A s \in Sessions : \A l \in sessions[s].reply_lens : l = 44100 /\ l = 22050 * 2

\* messages of every length were answered on one connection
C13_Witness == \E s \in Sessions : sessions[s].answered = InboundLens

\* C14: a session that has ended has its PyAudio instance terminated and, if it
\* opened a playback stream, that stream closed.
C14_PlaybackReleased ==
    \A s \in Sessions :
        sessions[s].pc = "done" =>
            sessions[s].pa = "terminated" /\ sessions[s].stream \in {"none", "closed"}

\* a session that had opened its stream and answered a message has ended
C14_Witness ==
    \E s \in Sessions : /\ sessions[s].pc = "done" /\ sessions[s].stream = "closed"
                        /\ sessions[s].replies >= 1

\* C15: a session whose playback stream failed to open has ended with nothing
\* read, played or sent, and its PyAudio instance terminated.
C15_OpenFailureAborts ==
    \A s \in Sessions :
        (sessions[s].pc # "free" /\ sessions[s].stream = "none") =>
            sessions[s] = [NoSession EXCEPT !.pc = "done", !.pa = "terminated"]

\* a session ended by the open failure while the server still listens
C15_Witness ==
    \E s \in Sessions : /\ sessions[s].pc = "done" /\ sessions[s].stream = "none"
                        /\ server_pc = "listening"

\* C16: a step in which one session fails changes no other session and leaves
\* the server listening.
C16_FailureIsolated ==
    [][\A s \in Sessions :
          HandlerFailure(s) =>
              /\ \A t \in Sessions \ {s} : sessions'[t] = sessions[t]
              /\ server_pc' = server_pc /\ server_pc = "listening"]_vars

\* one session ended by a failure in the middle of a message, another one
\* answered all its messages
C16_Witness ==
    \E s, t \in Sessions :
        /\ s # t /\ sessions[s].pc = "done" /\ sessions[s].replies < sessions[s].recv
        /\ sessions[t].replies = MaxMsgs /\ server_pc = "listening"

\* C17: no step of a sender or receiver task changes the shared connection
\* handle; only the connection manager assigns it.
C17_SingleWriter ==
    [][(\E g \in Gens : SenderStep(g) \/ ReceiverStep(g)) =>
           websocket_connection' = websocket_connection]_vars

InShutdown(m) == m.pc \in {"shutdown_gather", "closing", "done"}

\* the step changes no task, or cancels the live task t and nothing else
OnlyCancels(t, tasks, tasks2) ==
    \A g \in Gens : tasks2[g] # tasks[g] => g = t /\ tasks2[g] = Cancel(tasks[g])

\* a manager step that starts or ends the shutdown sequence with no connection
\* handle, from a position not in awaiting, closes no connection and reports
\* nothing; it cancels each of its live tasks in one step, waits for them once
\* and is done. A Stop request made when app_running and recording are both
\* false changes nothing.
StopTeardownNoOp(awaiting) ==
    /\ (~InShutdown(mgr) /\ InShutdown(mgr') /\ websocket_connection = 0
        /\ mgr.pc \notin awaiting) =>
           /\ mgr'.pc \in {"shutdown_gather", "done"}
           /\ conns' = conns /\ websocket_connection' = 0 /\ status' = status
           /\ OnlyCancels(mgr.send_task, sender, sender')
           /\ OnlyCancels(mgr.receive_task, receiver, receiver')
           /\ mgr'.pc = "done" => sender' = sender /\ receiver' = receiver
    /\ (mgr.pc = "shutdown_gather" /\ mgr'.pc # "shutdown_gather"
        /\ websocket_connection = 0) =>
           /\ mgr'.pc = "done"
           /\ conns' = conns /\ websocket_connection' = 0 /\ status' = status
           /\ sender' = sender /\ receiver' = receiver
           /\ \A g \in Gens : Done(sender[g]) /\ Done(receiver[g])
    /\ (~app_running /\ ~recording /\ stop_recording_wrapper) => UNCHANGED vars

\* C19 (as stated): whenever the manager has no connection handle, a Stop leads
\* to a shutdown that closes no connection, reports nothing and cancels and
\* awaits each task at most once; a second Stop changes nothing.
C19_StopWithoutHandle == [][StopTeardownNoOp({})]_vars

\* the positions of the manager inside a connection attempt: in connect(), or
\* waiting for the tasks of the previous connection after it succeeded
ConnectBlock == {"connecting", "gather_send", "gather_recv"}

\* C19 (amended): the same, unless the manager is inside a connection attempt
\* when it next runs; the attempt may succeed, or have succeeded, after the Stop.
C19_StopWhileDisconnected == [][StopTeardownNoOp(ConnectBlock)]_vars

\* Stop was requested during the backoff before any connection was made, and
\* the manager has finished
C19_Witness ==
    /\ mgr.pc = "done" /\ n_conns = 0 /\ mgr.fails >= 1
    /\ ~app_running /\ ~recording /\ websocket_connection = 0

\* C20: once more than one poll interval has passed since app_running was
\* cleared, the manager and every sender and receiver task have ended.
C20_ExitWithinPoll ==
    since_stop > PollTicks =>
        /\ mgr.pc \in {"none", "done"}
        /\ \A g \in Gens : Done(sender[g]) /\ Done(receiver[g])

\* C21: a failed connection attempt leaves the manager in its loop with no
\* handle: it reports "Retrying in Ns" for the delay N it then sleeps, after
\* the sleep the delay is doubled up to 30 and, while app_running, the next
\* attempt begins; a failed ping leads to the ping interval, not out of the loop.
C21_FailureKeepsManager ==
    [][/\ (mgr.pc = "connecting" /\ mgr'.pc # "connecting" /\ websocket_connection' = 0) =>
              /\ mgr'.pc = "backoff" /\ mgr'.delay = mgr.delay
              /\ \E k \in ConnectFailKinds : status' = RetryStatus(k, mgr.delay)
       /\ (mgr.pc = "backoff" /\ mgr'.pc # "backoff") =>
              /\ mgr'.delay = Min(2 * mgr.delay, MAX_RETRY_DELAY)
              /\ app_running => mgr'.pc = "connecting"
       /\ (mgr.pc = "pinging" /\ mgr'.pc # "pinging") => mgr'.pc = "ping_sleep"
      ]_vars

\* C22: a connection-closed error ends the sender or the receiver with a
\* "Connection lost" status; any other send, receive or playback error is
\* reported and leaves the task alive in a short sleep, with the handle as it
\* was, and while app_running the task's next step is the head of its loop.
C22_ClosedEndsOthersContinue ==
    [][\A g \in Gens :
          /\ SenderSendClosed(g) =>
                 Done(sender'[g]) /\ status' = St("Status: Connection lost (send).")
          /\ (\E o \in SaveOutcomes : ReceiverClosed(g, o)) =>
                 Done(receiver'[g]) /\ status' = St("Status: Connection lost (receive).")
          /\ SenderSendError(g) =>
                 /\ sender'[g].pc = "err_sleep" /\ status' = St("Status: Error sending audio.")
                 /\ websocket_connection' = websocket_connection
          /\ ReceiverError(g) =>
                 /\ receiver'[g].pc = "err_sleep"
                 /\ status' = St("Status: Error receiving audio.")
                 /\ websocket_connection' = websocket_connection
          /\ (sender[g].pc = "err_sleep" /\ sender'[g].pc # "err_sleep" /\ app_running) =>
                 \/ sender[g].cancel /\ Done(sender'[g])
                 \/ ~sender[g].cancel /\ sender'[g].pc = SenderHeadPc(websocket_connection)
          /\ (receiver[g].pc = "err_sleep" /\ receiver'[g].pc # "err_sleep" /\ app_running) =>
                 \/ receiver[g].cancel /\ Done(receiver'[g])
                 \/ /\ ~receiver[g].cancel
                    /\ receiver'[g].pc = IF websocket_connection # 0 THEN "recv"
                                         ELSE "idle_sleep"
      ]_vars

\* after a send error lost the first frame the same sender holds the second
\* frame on its connection, which is still open
C22_Witness ==
    \E g \in Gens :
        /\ sender[g].pc = "send" /\ sender[g].data = 2 /\ sender[g].conn = g
        /\ status = St("Status: Error sending audio.") /\ sent = <<>>
        /\ conns[g] = "open"

\* the status shows that a receiver of this run could not open the speaker
SpeakerErrorShown == \E k \in SpeakerFailKinds : status = SpeakerFailStatus(k)

\* C23: once the speaker could not be opened, for as long as that error is
\* shown in the run, no receiver tries to open the speaker, the manager begins
\* no connection attempt and no ping, and no sender begins to take or send a
\* frame.
C23_SpeakerFailureAborts ==
    [][(SpeakerErrorShown /\ bg_pc = "running") =>
          /\ \A g \in Gens :
                /\ receiver[g].pc = "new" => receiver'[g].pc \in {"new", "done"}
                /\ sender'[g].pc \in {"get", "send"} => sender'[g].pc = sender[g].pc
          /\ mgr'.pc \in {"connecting", "pinging"} => mgr'.pc = mgr.pc
      ]_vars

\* C24: the step in which the microphone fails to open clears app_running and
\* reports the text of the failure (no device, busy, generic); it starts no
\* loop and no manager and touches no connection and no task, and nothing does
\* so afterwards while the thread runs its finally block.
C24_MicFailureAborts ==
    [][/\ \A k \in MicFailKinds :
             BgMicFail(k) =>
                 /\ ~app_running' /\ ~loop_running' /\ bg_pc' = "finally"
                 /\ UNCHANGED <<taskVars, netVars, websocket_connection>>
                 /\ k = "nodevice" =>
                        status' = St("Error: No microphone found or invalid input device.")
                 /\ k = "busy" => status' = St("Error: Microphone is busy or unavailable.")
                 /\ k = "generic" =>
                        status' = St("Error: Could not open microphone. Check audio settings.")
       /\ (bg_pc = "finally" /\ ~loop_running) =>
             /\ bg_pc' \in {"finally", "finished"} /\ ~loop_running'
             /\ UNCHANGED <<taskVars, n_conns, websocket_connection>>
      ]_vars

\* a run ended by the microphone failure: no manager, no connection, no task
C24_Witness ==
    /\ bg_pc = "finished" /\ audio_stream = "none" /\ runs = 1 /\ ~app_running
    /\ mgr = NoManager /\ n_conns = 0 /\ websocket_connection = 0
    /\ \A g \in Gens : sender[g] = NoSender /\ receiver[g] = NoReceiver

\* C25: during a shutdown (app_running false) no playback stream of a
\* receiver and no capture stream is released while the connection handle is
\* still held.
C25_HardwareAfterConnection ==
    [][~app_running =>
          /\ \A g \in Gens :
                (receiver[g].out /\ ~receiver'[g].out) => websocket_connection = 0
          /\ (audio_stream # "none" /\ audio_stream' = "none") => websocket_connection = 0
      ]_vars

\* the run is active and the handle was cleared after connection k was made
ConnectionLost(k) ==
    /\ app_running /\ bg_pc = "running" /\ n_conns = k /\ websocket_connection = 0

\* the manager holds a sender and a receiver task created for connection c or later
FreshTasks(c) == n_conns >= c /\ mgr.send_task >= c /\ mgr.receive_task >= c

RECURSIVE FrameCount(_)
FrameCount(chunks) ==
    IF chunks = <<>> THEN 0
    ELSE (Head(chunks) \div (SAMPLE_WIDTH * CHANNELS)) + FrameCount(Tail(chunks))

\* bytes of the concatenation of a list of chunks
RECURSIVE ByteCount(_)
ByteCount(chunks) ==
    IF chunks = <<>> THEN 0 ELSE Head(chunks) + ByteCount(Tail(chunks))

\* this step, receiver g writes the file
WritesFile(g) ==
    /\ Len(wav_writes') = Len(wav_writes) + 1
    /\ wav_writes'[Len(wav_writes')].gen = g

\* C27: with file capture active, the receiver writes the file at the first chunk
\* with which the frames counted so far (bytes // (sample_width * channels) per
\* chunk) reach save_duration * RATE and not before; what it writes is every
\* chunk accumulated since the task started, in arrival order, so at least
\* save_duration * RATE frames. (A write of fewer frames is the one of a task
\* that ends in the same step.)
C27_FlushAtThreshold ==
    [][\A g \in Gens :
         LET r == receiver[g]
             w == wav_writes'[Len(wav_writes')]
         IN /\ r.saving => FrameCount(r.buf) < SaveDuration * RATE
            /\ (r.saving /\ receiver'[g].saving /\ receiver'[g].buf # r.buf)
                   => \E len \in CaptureLens \ {0} : receiver'[g].buf = Append(r.buf, len)
            /\ WritesFile(g)
                   => /\ r.saving /\ args_save
                      /\ \/ w.chunks = r.buf
                         \/ \E len \in CaptureLens \ {0} : w.chunks = Append(r.buf, len)
                      /\ receiver'[g].pc # "done"
                             => /\ w.chunks # r.buf
                                /\ FrameCount(w.chunks) >= SaveDuration * RATE
                                /\ ByteCount(w.chunks) \div (SAMPLE_WIDTH * CHANNELS)
                                       >= SaveDuration * RATE
                                /\ ~receiver'[g].saving]_vars

\* a file was written from two different chunks, in the order they arrived
C27_Witness ==
    \E i \in DOMAIN wav_writes :
        /\ wav_writes[i].chunks = <<44101, 44100>>
        /\ Live(receiver[wav_writes[i].gen])

\* no message can be taken by receiver task r in its next step
NoChunkNow(r) == r.pc # "recv" \/ conns[r.conn] # "open"

\* C28: a receiver task that ends (loop left on stop or on a closed connection,
\* or cancelled) with capture still active and at least one chunk accumulated
\* writes the accumulated chunks to the file once, in the step in which it ends;
\* a task that ends after its capture was written, or with nothing accumulated,
\* writes nothing at its end.
C28_ExitFlush ==
    [][\A g \in Gens :
         LET r == receiver[g]
             w == wav_writes'[Len(wav_writes')]
             Wrote == wav_writes' # wav_writes
         IN (Live(r) /\ receiver'[g].pc = "done")
                => /\ Wrote => /\ WritesFile(g)
                               /\ SubSeq(wav_writes', 1, Len(wav_writes)) = wav_writes
                               /\ w.chunks # <<>>
                   /\ (r.saving /\ r.buf # <<>>)
                          => /\ Wrote
                             /\ \/ w.chunks = r.buf
                                \/ \E len \in CaptureLens \ {0} : w.chunks = Append(r.buf, len)
                   /\ ~r.saving => ~Wrote
                   /\ (r.buf = <<>> /\ NoChunkNow(r)) => ~Wrote]_vars

\* a task ended while the run goes on and its one accumulated chunk is in the file
C28_Witness ==
    /\ receiver[1].pc = "done"
    /\ Len(wav_writes) = 1 /\ wav_writes[1] = [gen |-> 1, chunks |-> <<44100>>]
    /\ app_running /\ websocket_connection = 0

\* this step starts a background thread
ThreadStarted == runs' # runs \/ (bg_pc' = "start" /\ bg_pc # "start")

\* a manager loop exists: the event loop of a run is set up or running, or a
\* manager, sender or receiver task is alive
ManagerLoopExists ==
    \/ loop_running
    \/ bg_pc \in {"mic_open", "running"}
    \/ mgr.pc \notin {"none", "done", "raised"}
    \/ \E g \in Gens : Live(sender[g]) \/ Live(receiver[g])

\* C29: a Start request made while recording is true changes nothing; whenever
\* the button and the flag would let a Start request through, no manager loop
\* exists; and a background thread is only ever started when recording is false
\* and no manager loop of an earlier run exists. At most one manager loop
\* exists at any time.
C29_SingleRun ==
    [][/\ (recording /\ StartRecording(MaxRuns + MaxRestarts)) => UNCHANGED vars
       /\ (start_button = "normal" /\ ~recording)
              => /\ ~ManagerLoopExists
                 /\ bg_pc \in {"none", "finished", "finally"}
                 /\ bg_pc = "finally" => audio_stream = "none"
       /\ ThreadStarted => /\ ~recording
                           /\ start_button = "normal"
                           /\ ~ManagerLoopExists
                           /\ runs' = runs + 1]_vars

\* a second thread has just been started, after the first run's manager ended
C29_Witness ==
    /\ runs = MaxRuns + MaxRestarts /\ bg_pc = "start" /\ recording
    /\ mgr.pc = "done" /\ n_conns > 0

LiveSenders == {g \in Gens : Live(sender[g])}
LiveReceivers == {g \in Gens : Live(receiver[g])}

\* C31: at any moment of a client run at most one sender task and at most one
\* receiver task are alive; a step that creates the tasks of a connection finds
\* every earlier sender and receiver finished.
C31_OnePipelinePair ==
    [][/\ Cardinality(LiveSenders) <= 1
       /\ Cardinality(LiveReceivers) <= 1
       /\ \A g \in Gens :
              (sender[g].pc # "new" /\ sender'[g].pc = "new")
                  => /\ LiveSenders = {} /\ LiveReceivers = {}
                     /\ receiver'[g].pc = "new"]_vars

\* the tasks of the second connection were created after those of the first,
\* which had been running, finished
C31_Witness ==
    /\ sender[2].pc = "new" /\ receiver[2].pc = "new"
    /\ sender[1].pc = "done" /\ receiver[1].pc = "done"

\* C32: once a run has ended, for whatever reason, a Start request is accepted
\* and begins a new run: the button is enabled and the request is not ignored
\* as 'already recording'.
C32_StartAfterEnd ==
    bg_pc = "finished" => (start_button = "normal" /\ ~recording)

\* the microphone error of this run is on the status sink
MicErrorShown == \E k \in MicFailKinds : status = MicFailStatus(k)

\* C33: when a run is aborted because the microphone cannot be opened, the
\* device-specific error is the last status of that run: from the failure to
\* the end of the run's thread no other text replaces it.
C33_MicErrorStays ==
    [][(MicErrorShown /\ bg_pc = "finally" /\ bg_pc' = "finished") => status' = status]_vars

\* C34: at the step of the window-close handler that terminates PyAudio, the
\* capture stream is closed and no receiver task holds an open playback stream.
C34_TerminateAfterAudio ==
    [][(gui_pc = "close_sleep" /\ gui_pc' = "closed")
          => /\ audio_stream = "none"
             /\ \A g \in Gens : ~receiver[g].out]_vars

RECURSIVE CountIn(_, _)
CountIn(f, q) == IF q = <<>> THEN 0 ELSE (IF Head(q) = f THEN 1 ELSE 0) + CountIn(f, Tail(q))

Copies(f) ==
    CountIn(f, put_pending) + CountIn(f, audio_buffer_queue)
    + Cardinality({g \in Gens : sender[g].pc = "send" /\ sender[g].data = f})
    + Cardinality({i \in DOMAIN sent : sent[i].frame = f})

\* C36: a frame taken from the queue is passed to send at most once: no frame is
\* in two places, and a send that fails (connection closed, another error, or
\* the task cancelled) leaves the frame nowhere: not sent, not back on the
\* queue, not kept by the sender.
C36_SendAtMostOnce ==
    [][/\ \A f \in 1..captured : Copies(f) <= 1
       /\ \A g \in Gens :
              (sender[g].pc = "send" /\ sender'[g].pc # "send")
                  => /\ audio_buffer_queue' = audio_buffer_queue
                     /\ put_pending' = put_pending
                     /\ sender'[g].data = 0
                     /\ \/ sent' = Append(sent, [frame |-> sender[g].data, conn |-> sender[g].conn])
                        \/ sent' = sent]_vars

\* the only captured frame was taken from the queue, its send met a closed
\* connection, and the frame is gone
C36_Witness ==
    /\ captured = 1 /\ status = St("Status: Connection lost (send).")
    /\ put_pending = <<>> /\ audio_buffer_queue = <<>> /\ sent = <<>>
    /\ \A g \in Gens : sender[g].pc # "send"

\* the writes of the file made by receiver task g so far
WritesOf(g) == {i \in DOMAIN wav_writes : wav_writes[i].gen = g}

\* C37: one receiver task writes the file at most once; after its write from
\* inside the loop capture is inactive and the accumulator empty and stays so,
\* whatever is received, so its end writes nothing more.
C37_OneWritePerReceiver ==
    [][\A g \in Gens :
         /\ Cardinality(WritesOf(g)) <= 1
         /\ (WritesOf(g) # {} /\ Live(receiver[g]))
                => /\ ~receiver[g].saving /\ receiver[g].buf = <<>>
                   /\ ~receiver'[g].saving /\ receiver'[g].buf = <<>>
                   /\ wav_writes' = wav_writes]_vars

\* a receiver wrote the file from inside its loop, went on receiving and has ended
C37_Witness ==
    /\ Len(wav_writes) = 1 /\ wav_writes[1].gen = 1
    /\ FrameCount(wav_writes[1].chunks) >= SaveDuration * RATE
    /\ receiver[1].pc = "done" /\ status = St("Status: Connection lost (receive).")

====
